---- MODULE Spec2Model ----
(***************************************************************************)
(* Model of the Surface GPE/lid driver (src/module/surface_gpe.c).         *)
(*                                                                         *)
(* The driver matches the running system's DMI identity against            *)
(* dmi_lid_device_table, and for a matched system registers a platform     *)
(* driver and device whose probe marks the lid GPE for wake, enables it    *)
(* and clears its wake mask; the PM callbacks set the wake mask on         *)
(* suspend and clear it on resume; remove restores the default.            *)
(*                                                                         *)
(* The ACPI calls (acpi_get_handle, acpi_mark_gpe_for_wake,                *)
(* acpi_enable_gpe, acpi_disable_gpe, acpi_set_gpe_wake_mask) are the      *)
(* environment: each returns success or failure, chosen by the             *)
(* environment, and a failed call leaves the GPE state as it was.          *)
(***************************************************************************)
EXTENDS Integers, Sequences, FiniteSets, TLC

VARIABLES
    identity,            \* DMI strings of the running system
    pc,                  \* module lifetime: "unloaded", "loaded", "load_failed", "exited"
    initRet,             \* << >>, then <<r>> once surface_gpe_init has returned r
    surface_gpe_device,  \* static struct platform_device *: TRUE when non-NULL
    driver_registered,   \* the platform driver surface_gpe is registered
    platform_data,       \* pdev->dev.platform_data, the copied surface_lid_device
    binding,             \* driver core: "none", "pending", "bound", "probe_failed"
    drvdata,             \* platform_get_drvdata(pdev)
    acpi,                \* GPE state held by the ACPI core
    calls,               \* every ACPI call issued so far, in order
    hist                 \* every driver entry point run so far, in order

vars == <<identity, pc, initRet, surface_gpe_device, driver_registered,
          platform_data, binding, drvdata, acpi, calls, hist>>

----------------------------------------------------------------------------
(* Bounds of the model *)

\* number of suspend/resume callbacks the PM core issues in one lifetime
MaxPm == 3

----------------------------------------------------------------------------
(* Error numbers used by the driver *)

EFAULT == 14
ENODEV == 19
ENOMEM == 12

----------------------------------------------------------------------------
(* struct surface_lid_device and its four instances *)

NULLDEV == [acpi_path |-> "", gpe_number |-> 0]

lid_device_l17 == [acpi_path |-> "\\_SB.LID0", gpe_number |-> 23]
lid_device_l4D == [acpi_path |-> "\\_SB.LID0", gpe_number |-> 77]
lid_device_l4F == [acpi_path |-> "\\_SB.LID0", gpe_number |-> 79]
lid_device_l57 == [acpi_path |-> "\\_SB.LID0", gpe_number |-> 87]

LidDevices == {lid_device_l17, lid_device_l4D, lid_device_l4F, lid_device_l57}

GPEs == {d.gpe_number : d \in LidDevices}

----------------------------------------------------------------------------
(* dmi_lid_device_table: every entry is DMI_SYS_VENDOR plus one of          *)
(* DMI_PRODUCT_NAME / DMI_PRODUCT_SKU, both DMI_EXACT_MATCH                 *)

Entry(ident, slot, value, dev) ==
    [ident |-> ident, vendor |-> "Microsoft Corporation",
     slot |-> slot, value |-> value, driver_data |-> dev]

dmi_lid_device_table ==
    << Entry("Surface Pro 4",       "DMI_PRODUCT_NAME", "Surface Pro 4",    lid_device_l17),
       Entry("Surface Pro 5",       "DMI_PRODUCT_SKU",  "Surface_Pro_1796", lid_device_l4F),
       Entry("Surface Pro 5 (LTE)", "DMI_PRODUCT_SKU",  "Surface_Pro_1807", lid_device_l4F),
       Entry("Surface Pro 6",       "DMI_PRODUCT_NAME", "Surface Pro 6",    lid_device_l4F),
       Entry("Surface Pro 7",       "DMI_PRODUCT_NAME", "Surface Pro 7",    lid_device_l4D),
       Entry("Surface Book 1",      "DMI_PRODUCT_NAME", "Surface Book",     lid_device_l17),
       Entry("Surface Book 2",      "DMI_PRODUCT_NAME", "Surface Book 2",   lid_device_l17),
       Entry("Surface Book 3",      "DMI_PRODUCT_NAME", "Surface Book 3",   lid_device_l4D),
       Entry("Surface Laptop 1",    "DMI_PRODUCT_NAME", "Surface Laptop",   lid_device_l57),
       Entry("Surface Laptop 2",    "DMI_PRODUCT_NAME", "Surface Laptop 2", lid_device_l57),
       Entry("Surface Laptop 3 (Intel 13\")", "DMI_PRODUCT_SKU",
             "Surface_Laptop_3_1867:1868", lid_device_l4D) >>

\* DMI_EXACT_MATCH: the identity string is present and strcmp(...) == 0
dmi_exact_match(have, want) == have # "" /\ have = want

dmi_field(id, slot) ==
    IF slot = "DMI_PRODUCT_NAME" THEN id.product_name ELSE id.product_sku

dmi_matches_any_vendor(id, e) ==
    dmi_exact_match(dmi_field(id, e.slot), e.value)

\* dmi_matches: every used slot of the entry matches
dmi_matches(id, e) ==
    /\ dmi_exact_match(id.sys_vendor, e.vendor)
    /\ dmi_exact_match(dmi_field(id, e.slot), e.value)

\* dmi_first_match: index of the first matching entry, 0 when the table is
\* exhausted (NULL)
RECURSIVE dmi_first_match_from(_, _, _)
dmi_first_match_from(id, table, i) ==
    IF i > Len(table) THEN 0
    ELSE IF dmi_matches(id, table[i]) THEN i
    ELSE dmi_first_match_from(id, table, i + 1)

dmi_last_match(id, table) ==
    LET hits == {i \in 1..Len(table) : dmi_matches(id, table[i])} IN
    IF hits = {} THEN 0 ELSE CHOOSE i \in hits : \A j \in hits : j <= i

dmi_first_match(id, table) == dmi_first_match_from(id, table, 1)

\* the identities the model runs the driver on ("" is an absent DMI string)
Vendors == {"Microsoft Corporation", "Acme Corp", ""}
ProductNames == {"Surface Pro 4", "surface pro 4", "Surface Pro", "Surface Pro 6",
                 "Surface Laptop", "Surface Laptop 3", ""}
ProductSkus == {"Surface_Pro_1796", "Surface_Laptop_3_1867:1868", "Surface_Pro_4", ""}

Identities ==
    [sys_vendor : Vendors, product_name : ProductNames, product_sku : ProductSkus]

----------------------------------------------------------------------------
(* The ACPI core: GPE state and the calls the driver makes on it.          *)
(* m is [acpi, calls]; every operator returns the m after the call.        *)

Call(fn, path, gpe, action, ok) ==
    [fn |-> fn, path |-> path, gpe |-> gpe, action |-> action, ok |-> ok]

acpi_get_handle(m, path, ok) ==
    [m EXCEPT !.calls = Append(@, Call("acpi_get_handle", path, 0, "", ok))]

acpi_mark_gpe_for_wake(m, gpe, ok) ==
    [acpi  |-> IF ok THEN [m.acpi EXCEPT !.can_wake[gpe] = TRUE] ELSE m.acpi,
     calls |-> Append(m.calls, Call("acpi_mark_gpe_for_wake", "", gpe, "", ok))]

acpi_enable_gpe(m, gpe, ok) ==
    [acpi  |-> IF ok THEN [m.acpi EXCEPT !.runtime_count[gpe] = @ + 1] ELSE m.acpi,
     calls |-> Append(m.calls, Call("acpi_enable_gpe", "", gpe, "", ok))]

\* fails (AE_LIMIT) when there is no reference to remove
acpi_disable_gpe(m, gpe, ok) ==
    LET done == ok /\ m.acpi.runtime_count[gpe] > 0 IN
    [acpi  |-> IF done THEN [m.acpi EXCEPT !.runtime_count[gpe] = @ - 1] ELSE m.acpi,
     calls |-> Append(m.calls, Call("acpi_disable_gpe", "", gpe, "", done))]

acpi_set_gpe_wake_mask(m, gpe, action, ok) ==
    [acpi  |-> IF ok THEN [m.acpi EXCEPT !.wake_mask[gpe] = (action = "ACPI_GPE_ENABLE")]
                     ELSE m.acpi,
     calls |-> Append(m.calls, Call("acpi_set_gpe_wake_mask", "", gpe, action, ok))]

----------------------------------------------------------------------------
(* The driver *)

surface_lid_enable_wakeup_unchecked(m, dev, enable, ok) ==
    LET action == IF enable THEN "ACPI_GPE_ENABLE" ELSE "ACPI_GPE_DISABLE" IN
    [m   |-> acpi_set_gpe_wake_mask(m, dev.gpe_number, action, ok),
     ret |-> 0]

surface_lid_enable_wakeup_refcounted(m, dev, enable, ok) ==
    LET action == IF enable THEN "ACPI_GPE_ENABLE" ELSE "ACPI_GPE_DISABLE"
        m1 == acpi_set_gpe_wake_mask(m, dev.gpe_number, action, ok)
    IN
    [m   |-> IF enable THEN acpi_enable_gpe(m1, dev.gpe_number, ok) ELSE m1,
     ret |-> IF ~ok THEN -EFAULT ELSE 0]

surface_lid_enable_wakeup_inverted(m, dev, enable, ok) ==
    LET action == IF enable THEN "ACPI_GPE_DISABLE" ELSE "ACPI_GPE_ENABLE" IN
    [m   |-> acpi_set_gpe_wake_mask(m, dev.gpe_number, action, ok),
     ret |-> IF ~ok THEN -EFAULT ELSE 0]

surface_lid_enable_wakeup_retry(m, dev, enable, ok) ==
    LET action == IF enable THEN "ACPI_GPE_ENABLE" ELSE "ACPI_GPE_DISABLE"
        m1 == acpi_set_gpe_wake_mask(m, dev.gpe_number, action, ok)
    IN
    [m   |-> IF ~ok THEN acpi_set_gpe_wake_mask(m1, dev.gpe_number, action, ok) ELSE m1,
     ret |-> IF ~ok THEN -EFAULT ELSE 0]

surface_lid_enable_wakeup_remarks(m, dev, enable, ok) ==
    LET action == IF enable THEN "ACPI_GPE_ENABLE" ELSE "ACPI_GPE_DISABLE"
        m1 == acpi_mark_gpe_for_wake(m, dev.gpe_number, ok)
    IN
    [m   |-> acpi_set_gpe_wake_mask(m1, dev.gpe_number, action, ok),
     ret |-> IF ~ok THEN -EFAULT ELSE 0]

\* surface_lid_enable_wakeup(dev, enable): [m, ret]
surface_lid_enable_wakeup(m, dev, enable, ok) ==
    LET action == IF enable THEN "ACPI_GPE_ENABLE" ELSE "ACPI_GPE_DISABLE" IN
    [m   |-> acpi_set_gpe_wake_mask(m, dev.gpe_number, action, ok),
     ret |-> IF ~ok THEN -EFAULT ELSE 0]

Here == [acpi |-> acpi, calls |-> calls]

\* one entry of hist: the entry point, what it returned, the range of calls it
\* issued (first..last) and the GPE state it left
Hook(name, ret, before, after) ==
    [hook |-> name, ret |-> ret, first |-> Len(before.calls) + 1,
     last |-> Len(after.calls), acpi |-> after.acpi]

PmCount == Cardinality({i \in 1..Len(hist) : hist[i].hook \in {"suspend", "resume"}})

\* the bool surface_gpe_suspend passes to surface_lid_enable_wakeup
suspend_enable == TRUE

resume_enable_stuck == TRUE

\* the bool surface_gpe_resume passes to surface_lid_enable_wakeup
resume_enable == FALSE

surface_gpe_suspend(ok) ==
    /\ pc = "loaded"
    /\ binding = "bound"
    /\ PmCount < MaxPm
    /\ LET ldev == drvdata
           r == surface_lid_enable_wakeup(Here, ldev, suspend_enable, ok)
       IN /\ acpi' = r.m.acpi
          /\ calls' = r.m.calls
          /\ hist' = Append(hist, Hook("suspend", r.ret, Here, r.m))
    /\ UNCHANGED <<identity, pc, initRet, surface_gpe_device, driver_registered,
                   platform_data, binding, drvdata>>

surface_gpe_resume(ok) ==
    /\ pc = "loaded"
    /\ binding = "bound"
    /\ PmCount < MaxPm
    /\ LET ldev == drvdata
           r == surface_lid_enable_wakeup(Here, ldev, resume_enable, ok)
       IN /\ acpi' = r.m.acpi
          /\ calls' = r.m.calls
          /\ hist' = Append(hist, Hook("resume", r.ret, Here, r.m))
    /\ UNCHANGED <<identity, pc, initRet, surface_gpe_device, driver_registered,
                   platform_data, binding, drvdata>>

probe_enable_armed == TRUE

\* the bool surface_gpe_probe passes to surface_lid_enable_wakeup
probe_enable == FALSE

surface_gpe_probe_ignores_mark(m, dev, okH, okM, okE, okW, okD) ==
    IF dev = NULLDEV THEN [m |-> m, ret |-> -ENODEV, drvdata |-> NULLDEV]
    ELSE LET m1 == acpi_get_handle(m, dev.acpi_path, okH) IN
    IF ~okH THEN [m |-> m1, ret |-> -EFAULT, drvdata |-> NULLDEV]
    ELSE LET m2 == acpi_mark_gpe_for_wake(m1, dev.gpe_number, okM)
             m3 == acpi_enable_gpe(m2, dev.gpe_number, okE) IN
    IF ~okE THEN [m |-> m3, ret |-> -EFAULT, drvdata |-> NULLDEV]
    ELSE LET r4 == surface_lid_enable_wakeup(m3, dev, probe_enable, okW) IN
    IF r4.ret # 0
    THEN [m |-> acpi_disable_gpe(r4.m, dev.gpe_number, okD), ret |-> r4.ret,
          drvdata |-> NULLDEV]
    ELSE [m |-> r4.m, ret |-> 0, drvdata |-> dev]

surface_gpe_probe_enable_first(m, dev, okH, okM, okE, okW, okD) ==
    IF dev = NULLDEV THEN [m |-> m, ret |-> -ENODEV, drvdata |-> NULLDEV]
    ELSE LET m1 == acpi_get_handle(m, dev.acpi_path, okH) IN
    IF ~okH THEN [m |-> m1, ret |-> -EFAULT, drvdata |-> NULLDEV]
    ELSE LET m2 == acpi_enable_gpe(m1, dev.gpe_number, okE) IN
    IF ~okE THEN [m |-> m2, ret |-> -EFAULT, drvdata |-> NULLDEV]
    ELSE LET m3 == acpi_mark_gpe_for_wake(m2, dev.gpe_number, okM) IN
    IF ~okM THEN [m |-> m3, ret |-> -EFAULT, drvdata |-> NULLDEV]
    ELSE LET r4 == surface_lid_enable_wakeup(m3, dev, probe_enable, okW) IN
    IF r4.ret # 0
    THEN [m |-> acpi_disable_gpe(r4.m, dev.gpe_number, okD), ret |-> r4.ret,
          drvdata |-> NULLDEV]
    ELSE [m |-> r4.m, ret |-> 0, drvdata |-> dev]

surface_gpe_probe_rollback_early(m, dev, okH, okM, okE, okW, okD) ==
    IF dev = NULLDEV THEN [m |-> m, ret |-> -ENODEV, drvdata |-> NULLDEV]
    ELSE LET m1 == acpi_get_handle(m, dev.acpi_path, okH) IN
    IF ~okH THEN [m |-> m1, ret |-> -EFAULT, drvdata |-> NULLDEV]
    ELSE LET m2 == acpi_mark_gpe_for_wake(m1, dev.gpe_number, okM) IN
    IF ~okM THEN [m |-> m2, ret |-> -EFAULT, drvdata |-> NULLDEV]
    ELSE LET m3 == acpi_enable_gpe(m2, dev.gpe_number, okE) IN
    IF ~okE THEN [m |-> acpi_disable_gpe(m3, dev.gpe_number, okD), ret |-> -EFAULT,
                  drvdata |-> NULLDEV]
    ELSE LET r4 == surface_lid_enable_wakeup(m3, dev, probe_enable, okW) IN
    IF r4.ret # 0
    THEN [m |-> acpi_disable_gpe(r4.m, dev.gpe_number, okD), ret |-> r4.ret,
          drvdata |-> NULLDEV]
    ELSE [m |-> r4.m, ret |-> 0, drvdata |-> dev]

surface_gpe_probe_enodev(m, dev, okH, okM, okE, okW, okD) ==
    IF dev = NULLDEV THEN [m |-> m, ret |-> -ENODEV, drvdata |-> NULLDEV]
    ELSE LET m1 == acpi_get_handle(m, dev.acpi_path, okH) IN
    IF ~okH THEN [m |-> m1, ret |-> -ENODEV, drvdata |-> NULLDEV]
    ELSE LET m2 == acpi_mark_gpe_for_wake(m1, dev.gpe_number, okM) IN
    IF ~okM THEN [m |-> m2, ret |-> -EFAULT, drvdata |-> NULLDEV]
    ELSE LET m3 == acpi_enable_gpe(m2, dev.gpe_number, okE) IN
    IF ~okE THEN [m |-> m3, ret |-> -EFAULT, drvdata |-> NULLDEV]
    ELSE LET r4 == surface_lid_enable_wakeup(m3, dev, probe_enable, okW) IN
    IF r4.ret # 0
    THEN [m |-> acpi_disable_gpe(r4.m, dev.gpe_number, okD), ret |-> r4.ret,
          drvdata |-> NULLDEV]
    ELSE [m |-> r4.m, ret |-> 0, drvdata |-> dev]

surface_gpe_probe_norollback(m, dev, okH, okM, okE, okW, okD) ==
    IF dev = NULLDEV THEN [m |-> m, ret |-> -ENODEV, drvdata |-> NULLDEV]
    ELSE LET m1 == acpi_get_handle(m, dev.acpi_path, okH) IN
    IF ~okH THEN [m |-> m1, ret |-> -EFAULT, drvdata |-> NULLDEV]
    ELSE LET m2 == acpi_mark_gpe_for_wake(m1, dev.gpe_number, okM) IN
    IF ~okM THEN [m |-> m2, ret |-> -EFAULT, drvdata |-> NULLDEV]
    ELSE LET m3 == acpi_enable_gpe(m2, dev.gpe_number, okE) IN
    IF ~okE THEN [m |-> m3, ret |-> -EFAULT, drvdata |-> NULLDEV]
    ELSE LET r4 == surface_lid_enable_wakeup(m3, dev, probe_enable, okW) IN
    IF r4.ret # 0
    THEN [m |-> r4.m, ret |-> r4.ret, drvdata |-> NULLDEV]
    ELSE [m |-> r4.m, ret |-> 0, drvdata |-> dev]

\* surface_gpe_probe(pdev): [m, ret, drvdata]; okH, okM, okE, okW, okD are the
\* outcomes of acpi_get_handle, acpi_mark_gpe_for_wake, acpi_enable_gpe,
\* acpi_set_gpe_wake_mask and (on the error path) acpi_disable_gpe
surface_gpe_probe(m, dev, okH, okM, okE, okW, okD) ==
    IF dev = NULLDEV THEN [m |-> m, ret |-> -ENODEV, drvdata |-> NULLDEV]
    ELSE LET m1 == acpi_get_handle(m, dev.acpi_path, okH) IN
    IF ~okH THEN [m |-> m1, ret |-> -EFAULT, drvdata |-> NULLDEV]
    ELSE LET m2 == acpi_mark_gpe_for_wake(m1, dev.gpe_number, okM) IN
    IF ~okM THEN [m |-> m2, ret |-> -EFAULT, drvdata |-> NULLDEV]
    ELSE LET m3 == acpi_enable_gpe(m2, dev.gpe_number, okE) IN
    IF ~okE THEN [m |-> m3, ret |-> -EFAULT, drvdata |-> NULLDEV]
    ELSE LET r4 == surface_lid_enable_wakeup(m3, dev, probe_enable, okW) IN
    IF r4.ret # 0
    THEN [m |-> acpi_disable_gpe(r4.m, dev.gpe_number, okD), ret |-> r4.ret,
          drvdata |-> NULLDEV]
    ELSE [m |-> r4.m, ret |-> 0, drvdata |-> dev]

surface_gpe_remove_short(m, dev, okW, okD) ==
    LET r1 == surface_lid_enable_wakeup(m, dev, FALSE, okW) IN
    IF r1.ret # 0 THEN [m |-> r1.m, ret |-> r1.ret, drvdata |-> dev]
    ELSE [m |-> acpi_disable_gpe(r1.m, dev.gpe_number, okD), ret |-> 0,
          drvdata |-> NULLDEV]

surface_gpe_remove_swapped(m, dev, okW, okD) ==
    LET m1 == acpi_disable_gpe(m, dev.gpe_number, okD)
        r2 == surface_lid_enable_wakeup(m1, dev, FALSE, okW)
    IN [m |-> r2.m, ret |-> 0, drvdata |-> NULLDEV]

\* surface_gpe_remove(pdev): [m, ret, drvdata]
surface_gpe_remove(m, dev, okW, okD) ==
    LET r1 == surface_lid_enable_wakeup(m, dev, FALSE, okW)
        m2 == acpi_disable_gpe(r1.m, dev.gpe_number, okD)
    IN [m |-> m2, ret |-> 0, drvdata |-> NULLDEV]

\* the "status" a failing platform_driver_register, platform_device_add_data
\* or platform_device_add returns
BusErrors == {-ENOMEM, -ENODEV}
BusStatus == {0} \cup BusErrors

surface_gpe_init_first_entry(id, regStatus, allocOk, dataStatus, addStatus) ==
    LET match == dmi_first_match(id, dmi_lid_device_table)
        none  == [device |-> FALSE, registered |-> FALSE, data |-> NULLDEV]
    IN
    IF match = 0 THEN [ret |-> 0] @@ none
    ELSE LET lid == dmi_lid_device_table[1].driver_data IN
    IF regStatus # 0 THEN [ret |-> regStatus] @@ none
    ELSE IF ~allocOk THEN [ret |-> -ENOMEM] @@ none
    ELSE IF dataStatus # 0 THEN [ret |-> dataStatus] @@ none
    ELSE IF addStatus # 0 THEN [ret |-> addStatus] @@ none
    ELSE [ret |-> 0, device |-> TRUE, registered |-> TRUE, data |-> lid]

\* surface_gpe_init(): [ret, device, registered, data]
surface_gpe_init(id, regStatus, allocOk, dataStatus, addStatus) ==
    LET match == dmi_first_match(id, dmi_lid_device_table)
        none  == [device |-> FALSE, registered |-> FALSE, data |-> NULLDEV]
    IN
    IF match = 0 THEN [ret |-> 0] @@ none
    ELSE LET lid == dmi_lid_device_table[match].driver_data IN
    IF regStatus # 0 THEN [ret |-> regStatus] @@ none
    ELSE IF ~allocOk THEN [ret |-> -ENOMEM] @@ none
    ELSE IF dataStatus # 0 THEN [ret |-> dataStatus] @@ none
    ELSE IF addStatus # 0 THEN [ret |-> addStatus] @@ none
    ELSE [ret |-> 0, device |-> TRUE, registered |-> TRUE, data |-> lid]

----------------------------------------------------------------------------
(* Actions: the entry points as the kernel invokes them *)

Init ==
    /\ identity \in Identities
    /\ pc = "unloaded"
    /\ initRet = << >>
    /\ surface_gpe_device = FALSE
    /\ driver_registered = FALSE
    /\ platform_data = NULLDEV
    /\ binding = "none"
    /\ drvdata = NULLDEV
    /\ acpi = [wake_mask     |-> [g \in GPEs |-> FALSE],
               runtime_count |-> [g \in GPEs |-> 0],
               can_wake      |-> [g \in GPEs |-> FALSE]]
    /\ calls = << >>
    /\ hist = << >>

\* module_init(surface_gpe_init)
ModuleInit(regStatus, allocOk, dataStatus, addStatus) ==
    /\ pc = "unloaded"
    /\ LET r == surface_gpe_init(identity, regStatus, allocOk, dataStatus, addStatus) IN
       /\ initRet' = << r.ret >>
       /\ surface_gpe_device' = r.device
       /\ driver_registered' = r.registered
       /\ platform_data' = r.data
       /\ binding' = IF r.device THEN "pending" ELSE "none"
       /\ pc' = IF r.ret = 0 THEN "loaded" ELSE "load_failed"
       /\ hist' = Append(hist, Hook("init", r.ret, Here, Here))
    /\ UNCHANGED <<identity, drvdata, acpi, calls>>

\* the driver core probes the added device (PROBE_PREFER_ASYNCHRONOUS: after
\* platform_device_add has returned); the probe's return value goes to the
\* driver core, which leaves the device unbound when it is not 0
DriverProbe(okH, okM, okE, okW, okD) ==
    /\ pc = "loaded"
    /\ binding = "pending"
    /\ LET r == surface_gpe_probe(Here, platform_data, okH, okM, okE, okW, okD) IN
       /\ acpi' = r.m.acpi
       /\ calls' = r.m.calls
       /\ drvdata' = r.drvdata
       /\ binding' = IF r.ret = 0 THEN "bound" ELSE "probe_failed"
       /\ hist' = Append(hist, Hook("probe", r.ret, Here, r.m))
    /\ UNCHANGED <<identity, pc, initRet, surface_gpe_device, driver_registered,
                   platform_data>>

ModuleExit_always_removes(okW, okD) ==
    /\ pc = "loaded"
    /\ IF ~surface_gpe_device
       THEN /\ hist' = Append(hist, Hook("exit", 0, Here, Here))
            /\ UNCHANGED <<acpi, calls, drvdata, binding, driver_registered,
                           platform_data>>
       ELSE /\ LET r == surface_gpe_remove(Here, platform_data, okW, okD) IN
               /\ acpi' = r.m.acpi
               /\ calls' = r.m.calls
               /\ drvdata' = r.drvdata
               /\ hist' = hist \o << Hook("remove", r.ret, Here, r.m),
                                     Hook("exit", 0, r.m, r.m) >>
            /\ binding' = "none"
            /\ platform_data' = NULLDEV
            /\ driver_registered' = FALSE
    /\ pc' = "exited"
    /\ UNCHANGED <<identity, initRet, surface_gpe_device>>

\* module_exit(surface_gpe_exit): platform_device_unregister calls
\* surface_gpe_remove when the device is bound
ModuleExit(okW, okD) ==
    /\ pc = "loaded"
    /\ IF ~surface_gpe_device
       THEN /\ hist' = Append(hist, Hook("exit", 0, Here, Here))
            /\ UNCHANGED <<acpi, calls, drvdata, binding, driver_registered,
                           platform_data>>
       ELSE /\ IF binding = "bound"
               THEN LET r == surface_gpe_remove(Here, drvdata, okW, okD) IN
                    /\ acpi' = r.m.acpi
                    /\ calls' = r.m.calls
                    /\ drvdata' = r.drvdata
                    /\ hist' = hist \o << Hook("remove", r.ret, Here, r.m),
                                          Hook("exit", 0, r.m, r.m) >>
               ELSE /\ hist' = Append(hist, Hook("exit", 0, Here, Here))
                    /\ UNCHANGED <<acpi, calls, drvdata>>
            /\ binding' = "none"
            /\ platform_data' = NULLDEV
            /\ driver_registered' = FALSE
    /\ pc' = "exited"
    /\ UNCHANGED <<identity, initRet, surface_gpe_device>>

Suspend == \E ok \in BOOLEAN : surface_gpe_suspend(ok)

Resume == \E ok \in BOOLEAN : surface_gpe_resume(ok)

Load ==
    \E regStatus \in BusStatus, allocOk \in BOOLEAN,
       dataStatus \in BusStatus, addStatus \in BusStatus :
        ModuleInit(regStatus, allocOk, dataStatus, addStatus)

Probe == \E okH, okM, okE, okW, okD \in BOOLEAN : DriverProbe(okH, okM, okE, okW, okD)

Unload == \E okW, okD \in BOOLEAN : ModuleExit(okW, okD)

Next == Load \/ Probe \/ Suspend \/ Resume \/ Unload

Spec == Init /\ [][Next]_vars

----------------------------------------------------------------------------
(* Vocabulary of the properties *)

\* the descriptor the table gives the running system, NULLDEV when none
Selected ==
    LET i == dmi_first_match(identity, dmi_lid_device_table) IN
    IF i = 0 THEN NULLDEV ELSE dmi_lid_device_table[i].driver_data

\* no table entry has the identity's vendor and its product name or SKU,
\* compared string by string
NoEntryMatches ==
    \A i \in 1..Len(dmi_lid_device_table) :
        LET e == dmi_lid_device_table[i] IN
        ~ /\ identity.sys_vendor = e.vendor
          /\ \/ e.slot = "DMI_PRODUCT_NAME" /\ identity.product_name = e.value
             \/ e.slot = "DMI_PRODUCT_SKU" /\ identity.product_sku = e.value

Hooks == 1..Len(hist)

Is(i, name) == i \in Hooks /\ hist[i].hook = name

Succeeded(i, name) == Is(i, name) /\ hist[i].ret = 0

\* the calls entry point i issued
CallsOf(i) == SubSeq(calls, hist[i].first, hist[i].last)

\* a GPE state has some wake mask enabled
Armed(a) == \E g \in GPEs : a.wake_mask[g]

\* a GPE state has some event source enabled
Enabled(a) == \E g \in GPEs : a.runtime_count[g] > 0

\* the manager's lifecycle state
Registered == binding = "bound" /\ drvdata # NULLDEV
Unregistered == binding # "bound" /\ drvdata = NULLDEV

\* hist records the GPE state every entry point left, and acpi is the last
HistoryIsCurrent ==
    IF hist = << >> THEN ~Armed(acpi) /\ ~Enabled(acpi)
    ELSE hist[Len(hist)].acpi = acpi

----------------------------------------------------------------------------
\* C1: round trip. After a successful probe, a successful suspend followed by
\* a successful resume leaves the wake masks exactly as the probe left them,
\* and that is: the selected GPE's wake mask disabled.
C1_RoundTrip ==
    /\ HistoryIsCurrent
    /\ \A p, i \in Hooks :
        ( /\ Succeeded(p, "probe")
          /\ Succeeded(i, "suspend")
          /\ Succeeded(i + 1, "resume") )
        => /\ hist[i + 1].acpi.wake_mask = hist[p].acpi.wake_mask
           /\ ~hist[i + 1].acpi.wake_mask[Selected.gpe_number]
           /\ ~hist[p].acpi.wake_mask[Selected.gpe_number]

\* a suspend really armed the GPE and the resume after it has just returned 0
C1_Witness ==
    /\ Len(hist) >= 3
    /\ Succeeded(Len(hist) - 1, "suspend")
    /\ hist[Len(hist) - 1].acpi.wake_mask[Selected.gpe_number]
    /\ Succeeded(Len(hist), "resume")
    /\ ~acpi.wake_mask[Selected.gpe_number]

----------------------------------------------------------------------------
\* the set_wake_mask(disabled) call of entry point i succeeded (resume issues
\* one call, remove issues it first)
ClearedMask(i) ==
    /\ Is(i, "resume") \/ Is(i, "remove")
    /\ calls[hist[i].first].fn = "acpi_set_gpe_wake_mask"
    /\ calls[hist[i].first].action = "ACPI_GPE_DISABLE"
    /\ calls[hist[i].first].ok

\* C2 as stated: the wake mask is enabled only between a successful suspend
\* and the next resume or teardown, and is disabled after a successful probe,
\* after every successful resume and after teardown.
C2_AsStated ==
    \A i \in Hooks :
        /\ Armed(hist[i].acpi) =>
              \E j \in 1..i :
                  /\ Succeeded(j, "suspend")
                  /\ \A k \in (j + 1)..i : hist[k].hook \notin {"resume", "remove", "exit"}
        /\ Succeeded(i, "probe") => ~Armed(hist[i].acpi)
        /\ Succeeded(i, "resume") => ~Armed(hist[i].acpi)
        /\ hist[i].hook \in {"remove", "exit"} => ~Armed(hist[i].acpi)

\* C2 (amended): the wake mask is enabled only from a successful suspend until
\* the next resume or teardown whose set_wake_mask(disabled) call succeeds; it
\* is disabled after a successful probe, after every successful resume and
\* after a teardown whose set_wake_mask(disabled) call succeeded; only the
\* selected GPE's mask is ever enabled.
C2_ArmedOnlyInSuspendWindow ==
    /\ HistoryIsCurrent
    /\ \A g \in GPEs : acpi.wake_mask[g] => g = Selected.gpe_number
    /\ \A i \in Hooks :
        /\ Armed(hist[i].acpi) =>
              \E j \in 1..i :
                  /\ Succeeded(j, "suspend")
                  /\ \A k \in (j + 1)..i : ~ClearedMask(k)
        /\ Succeeded(i, "probe") => ~Armed(hist[i].acpi)
        /\ Succeeded(i, "resume") => ~Armed(hist[i].acpi)
        /\ (Is(i, "remove") /\ ClearedMask(i)) => ~Armed(hist[i].acpi)
        /\ (Is(i, "exit") /\ i > 1 /\ ClearedMask(i - 1)) => ~Armed(hist[i].acpi)

\* the mask is enabled inside a suspend window, and a later state of the same
\* kind of run has it cleared by teardown
C2_Witness ==
    /\ pc = "exited"
    /\ \E j \in Hooks : Succeeded(j, "suspend") /\ Armed(hist[j].acpi)
                        /\ Is(j + 1, "remove") /\ ClearedMask(j + 1)
    /\ ~Armed(acpi)

----------------------------------------------------------------------------
\* C3: when no table entry matches the identity, surface_gpe_init returns 0
\* having created no device and registered no driver (Skip), no ACPI call is
\* ever made, and the manager stays unregistered.
C3_NoMatchIsInert ==
    (NoEntryMatches /\ pc # "unloaded") =>
        /\ Selected = NULLDEV
        /\ initRet = << 0 >>
        /\ ~surface_gpe_device
        /\ ~driver_registered
        /\ calls = << >>
        /\ Unregistered
        /\ binding = "none"
        /\ ~Armed(acpi) /\ ~Enabled(acpi)

\* an unmatched Microsoft system has been through init and exit
C3_Witness ==
    /\ NoEntryMatches
    /\ identity.sys_vendor = "Microsoft Corporation"
    /\ identity.product_name = "Surface Pro"
    /\ pc = "exited"
    /\ Len(hist) = 2

----------------------------------------------------------------------------
\* the registration steps of surface_gpe_probe, in the order it issues them
Steps == << "acpi_get_handle", "acpi_mark_gpe_for_wake", "acpi_enable_gpe",
            "acpi_set_gpe_wake_mask" >>

StepNames == {Steps[k] : k \in 1..Len(Steps)}

\* entry point i issued a registration step that failed
StepFailed(i) ==
    \E k \in hist[i].first..hist[i].last : calls[k].fn \in StepNames /\ ~calls[k].ok

\* entry point i issued an acpi_disable_gpe that failed
DisableFailed(i) ==
    \E k \in hist[i].first..hist[i].last : calls[k].fn = "acpi_disable_gpe" /\ ~calls[k].ok

----------------------------------------------------------------------------
\* C5 as stated: surface_gpe_init does not return 0 when a registration step
\* failed.
C5_AsStated ==
    \A i \in Hooks : (Is(i, "probe") /\ StepFailed(i)) => initRet # << 0 >>

\* C5 (amended): a failed registration step is returned as -EFAULT by
\* surface_gpe_probe to the driver core that called it, which leaves the device
\* unbound; the probe returns 0 exactly when no step failed; surface_gpe_init
\* has returned 0 before the probe ran and does not carry the failure.
C5_ProbeReportsFailure ==
    \A i \in Hooks :
        Is(i, "probe") =>
            /\ StepFailed(i) <=> hist[i].ret # 0
            /\ StepFailed(i) => hist[i].ret = -EFAULT /\ binding # "bound"
            /\ initRet = << 0 >>
            /\ Succeeded(i - 1, "init")

\* a probe failed at the initial set_wake_mask and reported -EFAULT
C5_Witness ==
    /\ Is(Len(hist), "probe")
    /\ hist[Len(hist)].ret = -EFAULT
    /\ Len(calls) = 5
    /\ calls[4].fn = "acpi_set_gpe_wake_mask" /\ ~calls[4].ok
    /\ binding = "probe_failed"

----------------------------------------------------------------------------
\* C6 as stated: after a failed probe and the module's exit no GPE is enabled.
C6_AsStated ==
    (pc = "exited" /\ \E i \in Hooks : Is(i, "probe") /\ hist[i].ret # 0)
        => ~Enabled(acpi)

\* C6 (amended): after a failed probe and the module's exit no GPE is enabled,
\* unless the acpi_disable_gpe of the probe's own rollback failed: the exit
\* issues no ACPI call for a device that never bound, so that GPE stays enabled.
C6_NothingEnabledAfterFailedInit ==
    \A i \in Hooks :
        (pc = "exited" /\ Is(i, "probe") /\ hist[i].ret # 0) =>
            /\ Is(i + 1, "exit") /\ Len(hist) = i + 1
            /\ hist[i + 1].last < hist[i + 1].first
            /\ Enabled(acpi) <=> DisableFailed(i)

\* the probe failed after enabling the GPE, rolled back, and the module exited
C6_Witness ==
    /\ pc = "exited"
    /\ Is(2, "probe") /\ hist[2].ret # 0
    /\ Len(calls) = 5 /\ calls[3].ok /\ calls[5].ok
    /\ ~Enabled(acpi)

----------------------------------------------------------------------------
\* C7: teardown does not short-circuit. Every surface_gpe_remove issues both
\* its set_wake_mask(DISABLE) and its acpi_disable_gpe and clears the driver
\* data, and the exit unregisters device and driver, whether or not the
\* set_wake_mask call failed.
C7_TeardownAttemptsEverything ==
    \A i \in Hooks :
        Is(i, "remove") =>
            /\ hist[i].last - hist[i].first + 1 = 2
            /\ \E k \in hist[i].first..hist[i].last :
                   calls[k].fn = "acpi_set_gpe_wake_mask"
            /\ \E k \in hist[i].first..hist[i].last :
                   /\ calls[k].fn = "acpi_disable_gpe"
                   /\ calls[k].gpe = Selected.gpe_number
            /\ ~calls[hist[i].first].ok => calls[hist[i].last].fn = "acpi_disable_gpe"
            /\ drvdata = NULLDEV
            /\ binding = "none"
            /\ ~driver_registered
            /\ pc = "exited"

\* a teardown whose set_wake_mask failed and whose acpi_disable_gpe went through
C7_Witness ==
    /\ Is(Len(hist) - 1, "remove")
    /\ ~calls[Len(calls) - 1].ok
    /\ calls[Len(calls) - 1].fn = "acpi_set_gpe_wake_mask"
    /\ calls[Len(calls)].fn = "acpi_disable_gpe" /\ calls[Len(calls)].ok
    /\ ~Enabled(acpi)
    /\ drvdata = NULLDEV

----------------------------------------------------------------------------
\* teardown i issued set_wake_mask(DISABLE), then acpi_disable_gpe, both for
\* the selected GPE, and nothing else
TeardownOrder(i) ==
    LET cs == CallsOf(i) IN
    /\ Len(cs) = 2
    /\ cs[1].fn = "acpi_set_gpe_wake_mask"
    /\ cs[1].action = "ACPI_GPE_DISABLE"
    /\ cs[1].gpe = Selected.gpe_number
    /\ cs[2].fn = "acpi_disable_gpe"
    /\ cs[2].gpe = Selected.gpe_number

\* C8 as stated: teardown issues set_wake_mask(DISABLE), then acpi_disable_gpe,
\* then releases the registration, and ends unregistered with the wake mask
\* disabled and the GPE disabled.
C8_AsStated ==
    \A i \in Hooks :
        Is(i, "remove") =>
            /\ TeardownOrder(i)
            /\ Unregistered
            /\ ~Armed(hist[i].acpi)
            /\ ~Enabled(hist[i].acpi)

\* C8 (amended): teardown from disarmed or armed issues set_wake_mask(DISABLE),
\* then acpi_disable_gpe, then releases the registration, and ends
\* unregistered; the wake mask is disabled when the set_wake_mask call
\* succeeded and is left as it was when it failed; the GPE is disabled when
\* the acpi_disable_gpe call succeeded and stays enabled when it failed.
C8_TeardownRestoresDefault ==
    \A i \in Hooks :
        Is(i, "remove") =>
            LET cs == CallsOf(i) IN
            /\ TeardownOrder(i)
            /\ Unregistered
            /\ binding = "none"
            /\ ~driver_registered
            /\ cs[1].ok => ~Armed(hist[i].acpi)
            /\ ~cs[1].ok => hist[i].acpi.wake_mask = hist[i - 1].acpi.wake_mask
            /\ cs[2].ok <=> ~Enabled(hist[i].acpi)

\* a teardown from the armed state that went through
C8_Witness ==
    /\ pc = "exited"
    /\ Is(Len(hist) - 1, "remove")
    /\ Armed(hist[Len(hist) - 2].acpi)
    /\ calls[Len(calls) - 1].ok /\ calls[Len(calls)].ok
    /\ ~Armed(acpi) /\ ~Enabled(acpi)
    /\ Unregistered

----------------------------------------------------------------------------
\* entry point i issued exactly one call, a set_wake_mask for the selected GPE
OnlySetsMask(i, action) ==
    /\ hist[i].first = hist[i].last
    /\ calls[hist[i].first].fn = "acpi_set_gpe_wake_mask"
    /\ calls[hist[i].first].action = action
    /\ calls[hist[i].first].gpe = Selected.gpe_number

\* C9: suspend is idempotent. Of two suspends in a row, neither issues
\* anything but one set_wake_mask(ENABLE), so neither changes the enable count
\* of the GPE; a successful suspend leaves the wake mask enabled; and when the
\* first left it enabled, the second leaves the GPE state exactly as the first
\* did, with the manager still registered.
C9_SuspendIdempotent ==
    \A i \in Hooks :
        (Is(i, "suspend") /\ Is(i + 1, "suspend")) =>
            LET g == Selected.gpe_number IN
            /\ OnlySetsMask(i, "ACPI_GPE_ENABLE")
            /\ OnlySetsMask(i + 1, "ACPI_GPE_ENABLE")
            /\ hist[i].acpi.runtime_count = hist[i - 1].acpi.runtime_count
            /\ hist[i + 1].acpi.runtime_count = hist[i].acpi.runtime_count
            /\ hist[i].ret = 0 => hist[i].acpi.wake_mask[g]
            /\ hist[i + 1].ret = 0 => hist[i + 1].acpi.wake_mask[g]
            /\ hist[i].acpi.wake_mask[g] => hist[i + 1].acpi = hist[i].acpi
            /\ i + 1 = Len(hist) => Registered

\* two successful suspends in a row have just run
C9_Witness ==
    /\ Len(hist) = 4
    /\ Succeeded(3, "suspend") /\ Succeeded(4, "suspend")
    /\ acpi.wake_mask[Selected.gpe_number]
    /\ acpi.runtime_count[Selected.gpe_number] = 1
    /\ Registered

----------------------------------------------------------------------------
\* C10: a resume that finds the wake mask disabled (no suspend armed it)
\* changes nothing: the GPE state is as before, the wake mask stays disabled,
\* the manager stays registered, and the resume returns 0 when its
\* set_wake_mask call succeeded.
C10_ResumeWithoutSuspend ==
    \A i \in Hooks :
        (Is(i, "resume") /\ ~Armed(hist[i - 1].acpi)) =>
            /\ OnlySetsMask(i, "ACPI_GPE_DISABLE")
            /\ hist[i].acpi = hist[i - 1].acpi
            /\ ~Armed(hist[i].acpi)
            /\ calls[hist[i].first].ok => hist[i].ret = 0
            /\ i = Len(hist) => Registered

\* the first PM callback after a successful probe is a resume, and it returned 0
C10_Witness ==
    /\ Len(hist) = 3
    /\ Succeeded(2, "probe")
    /\ Succeeded(3, "resume")
    /\ ~Armed(acpi)
    /\ Registered

----------------------------------------------------------------------------
\* C11: a suspend or resume issues exactly one acpi_set_gpe_wake_mask for the
\* selected GPE and no other ACPI call, whether that call succeeds or fails
\* (no retry); it returns 0 when the call succeeded and -EFAULT when it failed.
C11_PmHookOneCallNoRetry ==
    \A i \in Hooks :
        /\ Is(i, "suspend") => OnlySetsMask(i, "ACPI_GPE_ENABLE")
        /\ Is(i, "resume") => OnlySetsMask(i, "ACPI_GPE_DISABLE")
        /\ (Is(i, "suspend") \/ Is(i, "resume")) =>
              /\ calls[hist[i].first].ok => hist[i].ret = 0
              /\ ~calls[hist[i].first].ok =>
                    /\ hist[i].ret = -EFAULT
                    /\ hist[i].acpi = hist[i - 1].acpi

\* a suspend and a resume have both failed, each after its single call
C11_Witness ==
    /\ Len(hist) = 4
    /\ Is(3, "suspend") /\ hist[3].ret = -EFAULT
    /\ Is(4, "resume") /\ hist[4].ret = -EFAULT
    /\ Len(calls) = 6
    /\ ~calls[5].ok /\ ~calls[6].ok

----------------------------------------------------------------------------
\* entry i of the table has the identity's vendor and its product name or
\* SKU, compared string by string
RawMatch(i) ==
    LET e == dmi_lid_device_table[i] IN
    /\ identity.sys_vendor = e.vendor
    /\ \/ e.slot = "DMI_PRODUCT_NAME" /\ identity.product_name = e.value
       \/ e.slot = "DMI_PRODUCT_SKU" /\ identity.product_sku = e.value

RawMatches == {i \in 1..Len(dmi_lid_device_table) : RawMatch(i)}

\* the descriptor of the earliest matching entry, NULLDEV when none matches
Expected ==
    IF RawMatches = {} THEN NULLDEV
    ELSE dmi_lid_device_table[CHOOSE i \in RawMatches :
                                  \A j \in RawMatches : i <= j].driver_data

\* C12: first match wins. The descriptor the driver is given is that of the
\* earliest table entry whose vendor and product name (or vendor and SKU)
\* equal the identity's; when two entries match, the earlier one's.
C12_FirstMatchWins ==
    /\ Selected = Expected
    /\ (pc = "loaded" /\ surface_gpe_device) =>
          /\ platform_data = Expected
          /\ \A i, j \in RawMatches :
                i < j => \E k \in 1..i : /\ RawMatch(k)
                                         /\ platform_data = dmi_lid_device_table[k].driver_data
    /\ drvdata \in {NULLDEV, Expected}
    /\ (pc # "unloaded" /\ RawMatches = {}) => ~surface_gpe_device

\* a system that matches the Surface Pro 4 entry by name and the Surface Pro 5
\* entry by SKU has been given the Surface Pro 4 descriptor
C12_Witness ==
    /\ identity.product_name = "Surface Pro 4"
    /\ identity.product_sku = "Surface_Pro_1796"
    /\ RawMatch(1) /\ RawMatch(2)
    /\ dmi_lid_device_table[1].driver_data # dmi_lid_device_table[2].driver_data
    /\ binding = "bound"
    /\ drvdata = lid_device_l17

----------------------------------------------------------------------------
\* C14: a successful probe on a matched system issues acpi_get_handle for the
\* descriptor's path, then exactly one acpi_mark_gpe_for_wake, one
\* acpi_enable_gpe and one acpi_set_gpe_wake_mask(DISABLE), in that order and
\* all for the descriptor's GPE, and takes the manager from unregistered to
\* registered with the GPE marked, enabled once and its wake mask disabled.
C14_SuccessfulInitSequence ==
    \A i \in Hooks :
        Succeeded(i, "probe") =>
            LET cs == CallsOf(i)
                g  == Expected.gpe_number
            IN
            /\ Expected # NULLDEV
            /\ Succeeded(i - 1, "init")
            /\ hist[i].first = 1
            /\ Len(cs) = Len(Steps)
            /\ \A k \in 1..Len(Steps) : cs[k].fn = Steps[k] /\ cs[k].ok
            /\ cs[1].path = Expected.acpi_path
            /\ \A k \in 2..Len(Steps) : cs[k].gpe = g
            /\ cs[4].action = "ACPI_GPE_DISABLE"
            /\ ~Armed(hist[i - 1].acpi) /\ ~Enabled(hist[i - 1].acpi)
            /\ hist[i].acpi.can_wake[g]
            /\ hist[i].acpi.runtime_count[g] = 1
            /\ ~Armed(hist[i].acpi)
            /\ \A h \in GPEs \ {g} :
                  ~hist[i].acpi.can_wake[h] /\ hist[i].acpi.runtime_count[h] = 0
            /\ i = Len(hist) => Registered /\ drvdata = Expected

\* the probe of a Surface Pro 5 (GPE 0x4F) has just succeeded
C14_Witness ==
    /\ Len(hist) = 2
    /\ Succeeded(2, "probe")
    /\ Len(calls) = 4
    /\ drvdata = lid_device_l4F
    /\ Registered
    /\ acpi.runtime_count[79] = 1 /\ acpi.can_wake[79] /\ ~acpi.wake_mask[79]

----------------------------------------------------------------------------
\* C15: an exit with no active wake source (no table entry matched, or the
\* probe failed or never ran) issues no ACPI call, runs no
\* surface_gpe_remove, leaves the GPE state as it found it and the manager
\* unregistered.
C15_TeardownWithoutWakeSource ==
    \A i \in Hooks :
        (Is(i, "exit") /\ ~\E p \in Hooks : Succeeded(p, "probe")) =>
            /\ ~\E r \in Hooks : Is(r, "remove")
            /\ i = Len(hist)
            /\ hist[i].last < hist[i].first
            /\ Len(calls) = hist[i - 1].last
            /\ acpi = hist[i - 1].acpi
            /\ Unregistered
            /\ binding = "none"
            /\ pc = "exited"

\* the module exits after a probe that failed at acpi_get_handle
C15_Witness ==
    /\ pc = "exited"
    /\ Len(hist) = 3
    /\ Is(2, "probe") /\ hist[2].ret # 0
    /\ Is(3, "exit")
    /\ Len(calls) = 1
    /\ surface_gpe_device
    /\ Unregistered

----------------------------------------------------------------------------
\* among the first n calls: the acpi_enable_gpe calls that succeeded, the
\* acpi_disable_gpe calls issued, and those of them that failed
EnablesDone(n) ==
    Cardinality({k \in 1..n : calls[k].fn = "acpi_enable_gpe" /\ calls[k].ok})

DisablesIssued(n) ==
    Cardinality({k \in 1..n : calls[k].fn = "acpi_disable_gpe"})

DisablesFailed(n) ==
    Cardinality({k \in 1..n : calls[k].fn = "acpi_disable_gpe" /\ ~calls[k].ok})

Balance(n) == EnablesDone(n) - DisablesIssued(n)

\* C16: enable and disable are balanced. An acpi_disable_gpe is issued only
\* when one successful acpi_enable_gpe has not been undone yet; the number of
\* successful enables minus the number of disables issued is 0 or 1, is 1
\* exactly while the manager is registered and 0 whenever it is unregistered;
\* the GPE's own enable count differs from it only by the disables that
\* failed.
C16_EnableDisableBalanced ==
    LET n == Len(calls) IN
    /\ Balance(n) \in {0, 1}
    /\ Balance(n) = 1 <=> Registered
    /\ Unregistered => Balance(n) = 0
    /\ Registered \/ Unregistered
    /\ \A k \in 1..n :
          calls[k].fn = "acpi_disable_gpe" =>
              /\ Balance(k - 1) = 1
              /\ calls[k].gpe = Expected.gpe_number
    /\ \A g \in GPEs :
          acpi.runtime_count[g] =
              IF g = Expected.gpe_number THEN Balance(n) + DisablesFailed(n) ELSE 0

\* enabled by a probe, disabled again by the teardown after a suspend cycle
C16_Witness ==
    /\ pc = "exited"
    /\ \E p \in Hooks : Succeeded(p, "probe")
    /\ \E i \in Hooks : Is(i, "suspend")
    /\ EnablesDone(Len(calls)) = 1
    /\ DisablesIssued(Len(calls)) = 1
    /\ DisablesFailed(Len(calls)) = 0
    /\ Unregistered
    /\ ~Enabled(acpi)

----------------------------------------------------------------------------
\* this step is a suspend or a resume
PmStep ==
    /\ Len(hist') = Len(hist) + 1
    /\ hist'[Len(hist')].hook \in {"suspend", "resume"}

\* C17: a suspend or resume changes nothing but the wake mask of the selected
\* GPE: registration, driver data, descriptor, wake marking and enable counts
\* stay as they were, and the one call it adds is an acpi_set_gpe_wake_mask.
C17_PmHooksOnlyTouchWakeMask ==
    [][ PmStep =>
          /\ UNCHANGED <<identity, pc, initRet, surface_gpe_device,
                         driver_registered, platform_data, binding, drvdata>>
          /\ acpi'.runtime_count = acpi.runtime_count
          /\ acpi'.can_wake = acpi.can_wake
          /\ \A g \in GPEs \ {drvdata.gpe_number} :
                acpi'.wake_mask[g] = acpi.wake_mask[g]
          /\ Len(calls') = Len(calls) + 1
          /\ SubSeq(calls', 1, Len(calls)) = calls
          /\ calls'[Len(calls')].fn = "acpi_set_gpe_wake_mask"
          /\ hist'[Len(hist')].first = Len(calls')
          /\ hist'[Len(hist')].last = Len(calls')
      ]_vars

\* a suspend has just changed the wake mask and left the rest in place
C17_Witness ==
    /\ Len(hist) = 3
    /\ Succeeded(3, "suspend")
    /\ hist[3].acpi.wake_mask # hist[2].acpi.wake_mask
    /\ hist[3].acpi.runtime_count = hist[2].acpi.runtime_count
    /\ hist[3].acpi.can_wake = hist[2].acpi.can_wake
    /\ Registered
    /\ drvdata = Expected

----------------------------------------------------------------------------
\* C18: every ACPI call of a lifetime is for the descriptor matched at init:
\* acpi_get_handle for its path, every other call for its GPE number; the
\* state of every other GPE is never touched.
C18_OnlySelectedGpe ==
    /\ \A k \in 1..Len(calls) :
          /\ Expected # NULLDEV
          /\ IF calls[k].fn = "acpi_get_handle"
             THEN calls[k].path = Expected.acpi_path
             ELSE calls[k].gpe = Expected.gpe_number
    /\ \A g \in GPEs \ {Expected.gpe_number} :
          /\ ~acpi.wake_mask[g]
          /\ acpi.runtime_count[g] = 0
          /\ ~acpi.can_wake[g]
    /\ platform_data \in {NULLDEV, Expected}
    /\ drvdata \in {NULLDEV, Expected}

\* a whole lifetime (probe, suspend, resume, teardown) on a system that
\* matches the entries of two different GPEs
C18_Witness ==
    /\ identity.product_name = "Surface Pro 6"
    /\ identity.product_sku = "Surface_Laptop_3_1867:1868"
    /\ Expected = lid_device_l4F
    /\ pc = "exited"
    /\ \E i \in Hooks : Is(i, "suspend") /\ Is(i + 1, "resume") /\ Is(i + 2, "remove")
    /\ Len(calls) = 8
    /\ \A k \in 2..8 : calls[k].gpe = 79

----------------------------------------------------------------------------
\* entry point i saw one of its registration or wake-mask calls fail
Failed(i) ==
    /\ hist[i].hook \in {"probe", "suspend", "resume"}
    /\ StepFailed(i)

\* C19: whichever call failed (acpi_get_handle, acpi_mark_gpe_for_wake,
\* acpi_enable_gpe or acpi_set_gpe_wake_mask in the probe,
\* acpi_set_gpe_wake_mask in suspend or resume), the entry point returns the
\* same value, -EFAULT.
C19_SingleErrorValue ==
    \A i, j \in Hooks :
        /\ Failed(i) => hist[i].ret = -EFAULT
        /\ (Failed(i) /\ Failed(j)) => hist[i].ret = hist[j].ret
        /\ (hist[i].hook \in {"probe", "suspend", "resume"} /\ hist[i].ret # 0)
               => Failed(i)

\* a resume failed after a suspend had failed
C19_Witness ==
    /\ Len(hist) = 4
    /\ Is(3, "suspend") /\ Failed(3)
    /\ Is(4, "resume") /\ Failed(4)
    /\ hist[3].ret = hist[4].ret
    /\ hist[4].ret = -EFAULT

====
